---- MODULE Spec2Model ----
(***************************************************************************)
(* vCard Menu Helper (src/TypeScript/menu-helper.ts): the menu decorator   *)
(* updateMenuItems, the icon reference resolver, the image resolution      *)
(* orchestrator convertImageUrlToBase64 and the flattening of the          *)
(* decorated tree into vCard records by flattenMenuOptions.                *)
(*                                                                         *)
(* A JavaScript string is a sequence of tokens.  A token is a piece of     *)
(* text that no operation of the program looks into: a single character    *)
(* where the program inspects characters (the icon delimiters, digits,     *)
(* signs), the literal 'base64,' that cutBase64DataType searches for, or   *)
(* an opaque run of other characters (an icon name, a payload).            *)
(***************************************************************************)
EXTENDS Integers, Sequences, FiniteSets, TLC

\* ------------------------------------------------------------------ bounds

\* The largest number of nodes of a menu tree.
MaxNodes == 3

\* ------------------------------------------------------- JavaScript values

\* The value undefined (also: a deleted or missing property).
Undefined == <<"<undefined>">>

\* The empty string ''.
Empty == << >>

\* Truthiness of a string-or-undefined value.
Truthy(v) == v # Undefined /\ v # Empty

\* a || b
Or(a, b) == IF Truthy(a) THEN a ELSE b

\* a && b
And(a, b) == IF Truthy(a) THEN b ELSE a

\* The token standing for the literal 'base64,'.
B64 == "base64,"

\* str.includes(t) for a token t.
Includes(str, t) == \E i \in 1..Len(str) : str[i] = t

\* str.indexOf(t), 1-based; only used when str includes t.
IndexOf(str, t) == CHOOSE i \in 1..Len(str) : str[i] = t /\ \A j \in 1..(i - 1) : str[j] # t

\* str.split(sep) for a token sep: the array of the pieces between occurrences.
RECURSIVE Split(_, _)
Split(str, sep) ==
  IF ~Includes(str, sep) THEN <<str>>
  ELSE LET i == IndexOf(str, sep)
       IN  <<SubSeq(str, 1, i - 1)>> \o Split(SubSeq(str, i + 1, Len(str)), sep)

\* arr[k] of a JavaScript array (1-based here): undefined past its end.
At(arr, k) == IF k <= Len(arr) THEN arr[k] ELSE Undefined

\* The decimal digits.
DigitChars == {"0", "1", "2", "3", "4", "5", "6", "7", "8", "9"}

DigitVal(c) ==
  CASE c = "0" -> 0 [] c = "1" -> 1 [] c = "2" -> 2 [] c = "3" -> 3 [] c = "4" -> 4
    [] c = "5" -> 5 [] c = "6" -> 6 [] c = "7" -> 7 [] c = "8" -> 8 [] c = "9" -> 9

\* The value of the longest prefix of digits of str, continuing from acc.
RECURSIVE DigitsPrefix(_, _)
DigitsPrefix(str, acc) ==
  IF Len(str) = 0 \/ Head(str) \notin DigitChars THEN acc
  ELSE DigitsPrefix(Tail(str), 10 * acc + DigitVal(Head(str)))

\* Leading white space dropped.
RECURSIVE TrimStart(_)
TrimStart(str) == IF Len(str) > 0 /\ Head(str) = " " THEN TrimStart(Tail(str)) ELSE str

\* parseInt(str): [nan |-> TRUE] for NaN, else the integer parsed from the
\* optional sign and the longest prefix of digits.
ParseInt(str) ==
  IF str = Undefined THEN [nan |-> TRUE, val |-> 0]
  ELSE LET t    == TrimStart(str)
           neg  == Len(t) > 0 /\ Head(t) = "-"
           body == IF Len(t) > 0 /\ Head(t) \in {"-", "+"} THEN Tail(t) ELSE t
       IN  IF Len(body) = 0 \/ Head(body) \notin DigitChars
           THEN [nan |-> TRUE, val |-> 0]
           ELSE [nan |-> FALSE,
                 val |-> IF neg THEN 0 - DigitsPrefix(body, 0) ELSE DigitsPrefix(body, 0)]

\* number || fallback: NaN and 0 are falsy.
NumOr(p, fallback) == IF p.nan \/ p.val = 0 THEN fallback ELSE p.val

DigitChar(d) ==
  CASE d = 0 -> "0" [] d = 1 -> "1" [] d = 2 -> "2" [] d = 3 -> "3" [] d = 4 -> "4"
    [] d = 5 -> "5" [] d = 6 -> "6" [] d = 7 -> "7" [] d = 8 -> "8" [] d = 9 -> "9"

\* The decimal digits of a natural number.
RECURSIVE NatDigits(_)
NatDigits(n) == IF n < 10 THEN <<DigitChar(n)>> ELSE NatDigits(n \div 10) \o <<DigitChar(n % 10)>>

\* `${n}` of an integer n.
NumToString(n) == IF n < 0 THEN <<"-">> \o NatDigits(0 - n) ELSE NatDigits(n)

\* ------------------------------------------------------------ configuration

VARIABLES
  pc,            \* where the caller (render) stands
  MENU,          \* the global MENU: the top-level nodes, in order
  ICONS_WEIGHT,  \* the global ICONS_WEIGHT
  nodes,         \* the node objects: node -> its properties
  input,         \* the raw image fields each node was given (never changes)
  parameters,    \* the parameters prepareVariables was given (never changes)
  stack,         \* the call stack of updateMenuItems: frames [items, idx]
  passes,        \* how many times updateMenuItems has been called
  visits,        \* node -> how many times updateMenuItems has visited it
  imageInfo,     \* node -> the ImageInfo built for it on the latest visit
  xhr,           \* node -> its XMLHttpRequest: "none", "opened", "inflight", or what send() met
  img,           \* node -> the state of its Image element (convertSvgToPng)
  exception,     \* the exception that propagated to the caller, if any
  result,        \* flattenMenuOptions' result object: key -> blocks
  fstack,        \* the call stack of flatten: frames [node, key, phase, old, idx]
  fidx,          \* flattenMenuOptions' position in its loop over options
  appended       \* the nodes whose record has been appended, in that order

vars == <<pc, MENU, ICONS_WEIGHT, nodes, input, parameters, stack, passes, visits, imageInfo, xhr, img,
          exception, result, fstack, fidx, appended>>

\* ---------------------------------------------------- icon reference resolver

\* The delimiter characters of getIconSeparator, in their declared order.
Separators == <<";", ":", "|", "/", "=", "+", "*", ",", ".", "#">>

\* The fixed head of a resource link, up to and including 'materialsymbols'.
IconHost == "https://fonts.gstatic.com/s/i/short-term/release/materialsymbols"

\* getIconSeparator: the first delimiter of the list that the string holds.
getIconSeparator(icon) ==
  IF ~Truthy(icon) THEN Undefined
  ELSE IF \A k \in 1..Len(Separators) : ~Includes(icon, Separators[k]) THEN Undefined
  ELSE LET k == CHOOSE k \in 1..Len(Separators) :
                  /\ Includes(icon, Separators[k])
                  /\ \A j \in 1..(k - 1) : ~Includes(icon, Separators[j])
       IN  <<Separators[k]>>

\* getMaterialIconLink: the link <host><style>/<icon>/<weight segment>/48px.svg.
getMaterialIconLink(icon, weight, style) ==
  LET iconWeight == IF weight = 400 THEN <<"default">> ELSE <<"wght">> \o NumToString(weight)
      iconStyle  == IF style # <<"rounded">> /\ style # <<"outlined">> THEN <<"rounded">> ELSE style
  IN  <<IconHost>> \o iconStyle \o <<"/">> \o icon \o <<"/">> \o iconWeight \o <<"/", "48px.svg">>

\* A faulty getMaterialIcon: a bare icon name ignores the configured weight.
getMaterialIconFixedWeight(icon) ==
  IF ~Truthy(icon) THEN Undefined
  ELSE LET separator == getIconSeparator(icon)
       IN  IF ~Truthy(separator) THEN getMaterialIconLink(icon, 400, Undefined)
           ELSE LET parts == Split(icon, separator[1])
                IN  getMaterialIconLink(At(parts, 1),
                                        NumOr(ParseInt(At(parts, 4)), ICONS_WEIGHT),
                                        At(parts, 5))

\* getMaterialIcon: the link of an icon reference name<sep>color<sep>bg<sep>weight<sep>style.
getMaterialIcon(icon) ==
  IF ~Truthy(icon) THEN Undefined
  ELSE LET separator == getIconSeparator(icon)
       IN  IF ~Truthy(separator) THEN getMaterialIconLink(icon, ICONS_WEIGHT, Undefined)
           ELSE LET parts == Split(icon, separator[1])
                IN  getMaterialIconLink(At(parts, 1),
                                        NumOr(ParseInt(At(parts, 4)), ICONS_WEIGHT),
                                        At(parts, 5))

\* getSvgColors: the recolor pair of an icon reference (undefined without a delimiter).
getSvgColors(icon) ==
  LET none == [iconColor |-> Undefined, bgColor |-> Undefined]
  IN  IF ~Truthy(icon) THEN none
      ELSE LET separator == getIconSeparator(icon)
           IN  IF ~Truthy(separator) THEN none
               ELSE LET parts == Split(icon, separator[1])
                    IN  [iconColor |-> At(parts, 2), bgColor |-> At(parts, 3)]

\* ------------------------------------------------------- image classification

\* cutBase64DataType: what follows the first 'base64,' (up to the next one).
cutBase64DataType(base64) ==
  IF ~Truthy(base64) \/ ~Includes(base64, B64) THEN base64
  ELSE Split(base64, B64)[2]

\* A faulty classifier: the icon is looked at before the inline data.
ImageTypeIconFirst(item) ==
  Or(Or(And(item.icon, <<"svg">>), And(item.base64, <<"base64">>)), And(item.imageUrl, <<"jpg">>))

\* The type of the ImageInfo: base64 && 'base64' || icon && 'svg' || imageUrl && 'jpg'.
ImageType(item) ==
  Or(Or(And(item.base64, <<"base64">>), And(item.icon, <<"svg">>)), And(item.imageUrl, <<"jpg">>))

\* The source of the ImageInfo: cutBase64DataType(base64) || getMaterialIcon(icon) || imageUrl.
ImageSource(item) ==
  Or(Or(cutBase64DataType(item.base64), getMaterialIcon(item.icon)), item.imageUrl)

\* The ImageInfo updateMenuItems builds for a node.
BuildImageInfo(item) ==
  [type |-> ImageType(item), source |-> ImageSource(item), svgColors |-> getSvgColors(item.icon)]

\* deleteItemProperties: the raw image fields are deleted (an empty children
\* list is deleted too: an absent list and an empty one are both << >> here).
deleteItemProperties(item) ==
  [item EXCEPT !.icon = Undefined, !.base64 = Undefined, !.imageUrl = Undefined]

\* ------------------------------------------------------------ image resolution

\* What the network does to one synchronous XMLHttpRequest: a 200 response
\* with a body, another status, or a network failure, on which send() of a
\* synchronous request throws.
TreeNetOutcomes == {"200", "404", "neterror"}

\* The same, and a 200 response with an empty body.
NetOutcomes == TreeNetOutcomes \cup {"200empty"}

\* IMAGE_DATA_INFO.get(type): entries exist for 'svg' and 'jpg' only.
\* (defined is FALSE for the undefined that get returns for any other key.)
ImageDataInfo(type) ==
  CASE type = <<"svg">> -> [defined |-> TRUE, base64Data |-> <<"image/svg+xml">>,
                            mimeType |-> <<"image/svg+xml">>]
    [] type = <<"jpg">> -> [defined |-> TRUE, base64Data |-> <<"image/jpeg">>,
                            mimeType |-> <<"text/plain; charset=x-user-defined">>]
    [] OTHER -> [defined |-> FALSE, base64Data |-> Undefined, mimeType |-> Undefined]

\* btoa(str): an encoding, kept distinct from the text it encodes.
Btoa(str) == <<"btoa[">> \o str \o <<"]">>

\* A promise: not yet created, pending, or fulfilled with a value.
NoPromise == [state |-> "none", value |-> Undefined]
Pending == [state |-> "pending", value |-> Undefined]
Fulfilled(v) == [state |-> "fulfilled", value |-> v]

\* canvas.toDataURL(): a PNG data URL.
DataURL == <<"data:image/png;", B64, "PNG">>

\* A faulty request: xhr.open('GET', url, true), an asynchronous request.
XhrAsyncTrue == TRUE

\* The async argument of xhr.open('GET', url, false): the request is
\* synchronous, send() returns only when the request has ended.
XhrAsync == FALSE

\* getImageFromUrl: the request is opened, overrideMimeType reads info.mimeType
\* (a TypeError when info is undefined), send() throws on a network failure,
\* a status other than 200 returns undefined, otherwise the response text.
\* (send() of an asynchronous request would return at once, the request in
\* flight and its status still 0.)
getImageFromUrl(url, info, net) ==
  IF ~info.defined
    THEN [threw |-> "TypeError", xhr |-> "opened", text |-> Undefined]
  ELSE IF XhrAsync
    THEN [threw |-> "none", xhr |-> "inflight", text |-> Undefined]
  ELSE IF net = "neterror"
    THEN [threw |-> "NetworkError", xhr |-> net, text |-> Undefined]
  ELSE IF net = "404"
    THEN [threw |-> "none", xhr |-> net, text |-> Undefined]
  ELSE IF net = "200empty"
    THEN [threw |-> "none", xhr |-> net, text |-> Empty]
  ELSE [threw |-> "none", xhr |-> net, text |-> <<"body of ">> \o url]

\* getColorizedSvgBase64: undefined unless the type is 'svg'; else the base64
\* of the recoloured, re-serialized markup.
getColorizedSvgBase64(imageResponse, image) ==
  IF image.type # <<"svg">> THEN Undefined
  ELSE Btoa(<<"recoloured ">> \o imageResponse)

\* getImageBas64: the base64 of the low bytes of the response.
getImageBas64(imageResponse) == Btoa(imageResponse)

\* convertImageUrlToBase64: the promise it returns (or the exception it lets
\* through), how far the request got, and whether an Image started loading.
convertImageUrlToBase64(image, net) ==
  IF image.type = <<"base64">>
    THEN [threw |-> "none", promise |-> Fulfilled(image.source), xhr |-> "none", img |-> "none"]
  ELSE LET info == ImageDataInfo(image.type)
           resp == getImageFromUrl(image.source, info, net)
       IN  IF resp.threw # "none"
             THEN [threw |-> resp.threw, promise |-> NoPromise, xhr |-> resp.xhr, img |-> "none"]
           ELSE IF ~Truthy(resp.text)
             THEN [threw |-> "none", promise |-> Fulfilled(Empty), xhr |-> resp.xhr, img |-> "none"]
           ELSE LET base64 == Or(getColorizedSvgBase64(resp.text, image), getImageBas64(resp.text))
                IN  IF image.type = <<"svg">>
                      THEN [threw |-> "none", promise |-> Pending, xhr |-> resp.xhr, img |-> "loading"]
                      ELSE [threw |-> "none", promise |-> Fulfilled(base64), xhr |-> resp.xhr,
                            img |-> "none"]

\* ------------------------------------------------------------------- records

\* getMenuList once the awaited base64Promise has given base64Response: the
\* vCard block of the node (N is its title, NOTE its id, PHOTO the photo line).
getMenuList(item, base64Response) ==
  LET base64 == cutBase64DataType(base64Response)
      photo  == IF Truthy(base64) THEN <<"PHOTO;BASE64:">> \o base64 ELSE Empty
  IN  [N |-> item.title, NOTE |-> item.id, PHOTO |-> photo]

\* -------------------------------------------------------------------- inputs

\* The ids a caller gives its nodes (ids need not be unique).
Ids == {<<"p">>, <<"#root">>}

\* The raw image fields of a node of a menu tree: none, inline data with a
\* data-URL prefix (beside an icon), an icon reference (beside a remote link).
NodeImages ==
  { [base64 |-> Undefined, icon |-> Undefined, imageUrl |-> Undefined],
    [base64 |-> <<"data:image/png;", B64, "AAAA">>, icon |-> <<"home">>, imageUrl |-> Undefined],
    [base64 |-> Undefined, icon |-> <<"home">>, imageUrl |-> <<"https://example.com/a.jpg">>] }

\* The iconsWeight parameter; 0 stands for every falsy value (unset, null, 0).
WeightParams == {0, 400, 700}

\* The integers tried as the weight field of an icon reference.
WeightValues == {0 - 5, 0, 100, 400, 700}

\* The weight fields tried: the integers above, none, and text that is no integer.
WeightFields ==
  {NumToString(n) : n \in WeightValues} \cup {Empty, <<"x">>, <<"4", "0", "0", "x">>}

\* The icon references tried: bare names, and name<sep>color<sep>bg<sep>weight
\* with and without a style, for two delimiters; one whose name holds a
\* delimiter of lower priority, and one with fewer fields.
IconRefs ==
  { <<"home">>, <<"ios_share">>, <<"a", "/", "b", ";", "red", ";", "blue", ";", "7", "0", "0">>,
    <<"home", ":", "red">> }
  \cup { <<"home", sep, "red", sep, "blue", sep>> \o w : sep \in {";", "#"}, w \in WeightFields }
  \cup { <<"home", sep, "red", sep, "blue", sep>> \o w \o <<sep, st>> :
           sep \in {";", "#"}, w \in WeightFields, st \in {"outlined", "bold"} }

\* The raw image fields tried on a single node: every combination of an
\* inline field, an icon field and a remote link.
RichImages ==
  { [base64 |-> b, icon |-> i, imageUrl |-> u] :
      b \in { Undefined, Empty, <<"AAAA">>, <<"data:image/png;", B64, "AAAA">>,
              <<"data:image/png;", B64>> },
      i \in IconRefs \cup {Undefined, Empty},
      u \in {Undefined, <<"https://example.com/a.jpg">>} }

\* The elements of a set of numbers in increasing order.
RECURSIVE Sorted(_)
Sorted(S) ==
  IF S = {} THEN << >>
  ELSE LET m == CHOOSE x \in S : \A y \in S : x <= y IN <<m>> \o Sorted(S \ {m})

\* The title of node n.
Title(n) == <<"title ">> \o NumToString(n)

\* a is m, or an ancestor of m, or 0 (the root of the forest).
RECURSIVE OnPath(_, _, _)
OnPath(par, a, m) == a = 0 \/ a = m \/ (m # 0 /\ OnPath(par, a, par[m]))

\* par describes a forest of N nodes: par[n] is the parent of node n (0 for a
\* top-level node).  Nodes are objects without an order of their own, so they
\* are numbered the way the caller wrote them down, parents before children
\* and earlier siblings (with all below them) before later ones.
IsForest(N, par) ==
  /\ \A n \in 1..N : par[n] < n
  /\ \A n \in 2..N : OnPath(par, par[n], n - 1)

\* The node object of node n of such a forest.
MenuNode(n, N, par, ids, ims) ==
  [ id |-> ids[n], title |-> Title(n),
    children |-> Sorted({c \in 1..N : par[c] = n}),
    base64 |-> ims[n].base64, icon |-> ims[n].icon, imageUrl |-> ims[n].imageUrl,
    base64Promise |-> NoPromise ]

\* ------------------------------------------------------------------ the state

\* The ImageInfo of a node that has not been visited.
NoImageInfo ==
  [type |-> Undefined, source |-> Undefined,
   svgColors |-> [iconColor |-> Undefined, bgColor |-> Undefined]]

\* Before prepareVariables: the globals are unset and there is no menu.
Init ==
  /\ pc = "init"
  /\ MENU = << >>
  /\ ICONS_WEIGHT = 0
  /\ nodes = << >>
  /\ input = << >>
  /\ parameters = [iconsWeight |-> 0]
  /\ stack = << >>
  /\ passes = 0
  /\ visits = << >>
  /\ imageInfo = << >>
  /\ xhr = << >>
  /\ img = << >>
  /\ exception = "none"
  /\ result = << >>
  /\ fstack = << >>
  /\ fidx = 0
  /\ appended = << >>

\* prepareVariables(menuItems, parameters), for a menu of N nodes with N in
\* Sizes, image fields from Images, ids from IdSet and iconsWeight in Weights.
PrepareVariables(Sizes, Images, IdSet, Weights) ==
  /\ pc = "init"
  /\ \E N \in Sizes, iconsWeight \in Weights :
       \E par \in [1..N -> 0..N], ids \in [1..N -> IdSet], ims \in [1..N -> Images] :
         /\ IsForest(N, par)
         /\ nodes' = [n \in 1..N |-> MenuNode(n, N, par, ids, ims)]
         /\ input' = ims
         /\ parameters' = [iconsWeight |-> iconsWeight]
         /\ MENU' = Sorted({n \in 1..N : par[n] = 0})
         /\ ICONS_WEIGHT' = IF iconsWeight # 0 THEN iconsWeight ELSE 400
         /\ visits' = [n \in 1..N |-> 0]
         /\ imageInfo' = [n \in 1..N |-> NoImageInfo]
         /\ xhr' = [n \in 1..N |-> "none"]
         /\ img' = [n \in 1..N |-> "none"]
  /\ pc' = "prepared"
  /\ UNCHANGED <<stack, passes, exception, result, fstack, fidx, appended>>

\* The stack of updateMenuItems after the callback has finished for the item
\* the top frame points at: forEach moves on, and a finished forEach returns.
RECURSIVE Unwind(_)
Unwind(stk) ==
  IF stk = << >> THEN << >>
  ELSE LET top == stk[Len(stk)]
       IN  IF top.idx < Len(top.items)
             THEN [stk EXCEPT ![Len(stk)].idx = top.idx + 1]
             ELSE Unwind(SubSeq(stk, 1, Len(stk) - 1))

\* A faulty decorator: the children of an item are never visited.
DescendSkipsChildren(stk, children) == Unwind(stk)

\* The stack once the item the top frame points at has been decorated:
\* updateMenuItems(children) is entered when the item has children.
Descend(stk, children) ==
  IF Len(children) > 0 THEN Append(stk, [items |-> children, idx |-> 1]) ELSE Unwind(stk)

\* render, or another caller, calls updateMenuItems(MENU): the first time
\* after prepareVariables, a second time on the decorated tree.
UpdateMenuItemsCall ==
  /\ passes = IF pc = "prepared" THEN 0 ELSE 1
  /\ pc \in {"prepared", "updated"}
  /\ passes' = passes + 1
  /\ IF Len(MENU) = 0
       THEN /\ pc' = "updated"
            /\ stack' = << >>
       ELSE /\ pc' = "updating"
            /\ stack' = <<[items |-> MENU, idx |-> 1]>>
  /\ UNCHANGED <<MENU, ICONS_WEIGHT, nodes, input, parameters, visits, imageInfo, xhr, img, exception,
                 result, fstack, fidx, appended>>

\* One run of the forEach callback of updateMenuItems, on the item the top
\* frame points at: classify, delete the raw fields, resolve (a synchronous
\* request when the type asks for one), attach the promise, go into children.
\* An exception leaves through every frame to the caller.  Nets is what the
\* network may do to the request.
VisitItem(Nets) ==
  /\ pc = "updating"
  /\ LET top       == stack[Len(stack)]
         n         == top.items[top.idx]
         menuItem  == nodes[n]
         info      == BuildImageInfo(menuItem)
         stripped  == deleteItemProperties(menuItem)
     IN  \E net \in IF ImageDataInfo(info.type).defined THEN Nets ELSE {"200"} :
           LET r == convertImageUrlToBase64(info, net)
           IN  /\ visits' = [visits EXCEPT ![n] = @ + 1]
               /\ imageInfo' = [imageInfo EXCEPT ![n] = info]
               /\ xhr' = [xhr EXCEPT ![n] = r.xhr]
               /\ IF r.threw # "none"
                    THEN /\ exception' = r.threw
                         /\ pc' = "threw"
                         /\ stack' = << >>
                         /\ nodes' = [nodes EXCEPT ![n] = stripped]
                         /\ img' = img
                    ELSE /\ exception' = exception
                         /\ nodes' = [nodes EXCEPT ![n] = [stripped EXCEPT !.base64Promise = r.promise]]
                         /\ img' = [img EXCEPT ![n] = r.img]
                         /\ stack' = Descend(stack, stripped.children)
                         /\ pc' = IF stack' = << >> THEN "updated" ELSE "updating"
  /\ UNCHANGED <<MENU, ICONS_WEIGHT, input, parameters, passes, result, fstack, fidx, appended>>

\* No JavaScript is running, so events of the page can be delivered:
\* flattenMenuOptions is suspended at an await, or render has ended.  (render
\* calls flattenMenuOptions in the task in which updateMenuItems returned.)
Idle == pc \in {"flattening", "done", "threw"}

\* img.onload of convertSvgToPng: the image is drawn and the promise resolves
\* with the canvas' data URL.
ImgOnload(n) ==
  /\ Idle
  /\ img[n] = "loading"
  /\ img' = [img EXCEPT ![n] = "loaded"]
  /\ nodes' = [nodes EXCEPT ![n].base64Promise = Fulfilled(DataURL)]
  /\ UNCHANGED <<pc, MENU, ICONS_WEIGHT, input, parameters, stack, passes, visits, imageInfo, xhr,
                 exception, result, fstack, fidx, appended>>

\* The image fails to decode: convertSvgToPng sets no onerror, so nothing
\* runs and the promise stays pending.
ImgOnerror(n) ==
  /\ Idle
  /\ img[n] = "loading"
  /\ img' = [img EXCEPT ![n] = "error"]
  /\ UNCHANGED <<pc, MENU, ICONS_WEIGHT, nodes, input, parameters, stack, passes, visits, imageInfo, xhr,
                 exception, result, fstack, fidx, appended>>

\* ------------------------------------------------------------------ flattening

\* The key of the top-level nodes (the default of flatten's key parameter).
RootKey == <<"#root">>

\* A faulty flatten: a child's record goes under the child's own id.
ChildKeySelf(parent, child) == nodes[child].id

\* The key flatten passes for a child: flatten(childNode, node.id).
ChildKey(parent, child) == nodes[parent].id

\* Where flatten goes next, from a stack whose top frame is iterating its
\* node's children at idx, and flattenMenuOptions' loop at fi: the node to
\* enter and its key, or enter = 0 when every loop has finished.
RECURSIVE NextToEnter(_, _)
NextToEnter(fs, fi) ==
  IF fs = << >>
    THEN IF fi <= Len(MENU)
           THEN [fstack |-> fs, fidx |-> fi, enter |-> MENU[fi], key |-> RootKey]
           ELSE [fstack |-> fs, fidx |-> fi, enter |-> 0, key |-> RootKey]
  ELSE LET top == fs[Len(fs)]
           ch  == nodes[top.node].children
           out == SubSeq(fs, 1, Len(fs) - 1)
       IN  IF top.idx <= Len(ch)
             THEN [fstack |-> fs, fidx |-> fi, enter |-> ch[top.idx],
                   key |-> ChildKey(top.node, ch[top.idx])]
           ELSE IF out = << >>
             THEN NextToEnter(out, fi + 1)
             ELSE NextToEnter([out EXCEPT ![Len(out)].idx = @ + 1], fi)

\* result[key] as JavaScript reads it: undefined for a key never written.
ResultAt(res, key) == IF key \in DOMAIN res THEN res[key] ELSE << >>

\* The head of flatten(node, key): if (!result[key]) result[key] = ''.
InitKey(res, key) == IF key \in DOMAIN res THEN res ELSE res @@ (key :> << >>)

\* flatten(node, key) up to its await: result[key] is initialised, the left
\* side of += is read, getMenuList is called and awaits the node's promise.
EnterFrame(node, key, res) == [node |-> node, key |-> key, old |-> ResultAt(InitKey(res, key), key), idx |-> 0]

\* The step of flatten that follows on from go (a NextToEnter) with result res.
FlattenFrom(go, res) ==
  /\ fidx' = go.fidx
  /\ IF go.enter = 0
       THEN /\ pc' = "done"
            /\ fstack' = go.fstack
            /\ result' = res
       ELSE /\ pc' = "flattening"
            /\ fstack' = Append(go.fstack, EnterFrame(go.enter, go.key, res))
            /\ result' = InitKey(res, go.key)

\* render calls flattenMenuOptions(MENU): it runs to its first await.
FlattenMenuOptionsCall ==
  /\ pc = "updated"
  /\ FlattenFrom(NextToEnter(<< >>, 1), << >>)
  /\ appended' = << >>
  /\ UNCHANGED <<MENU, ICONS_WEIGHT, nodes, input, parameters, stack, passes, visits, imageInfo, xhr, img,
                 exception>>

\* A faulty flatten: the new block is put in front of the key's value.
AppendRecordInFront(top, block) == [result EXCEPT ![top.key] = <<block>> \o top.old]

\* result[key] += <the awaited block>: the sum of the value read before the
\* await and the block is stored.
AppendRecord(top, block) == [result EXCEPT ![top.key] = top.old \o <<block>>]

\* After a node's record: its children in order, then whatever follows it.
FlattenOrder(fs) == NextToEnter([fs EXCEPT ![Len(fs)].idx = 1], fidx)

\* The awaited promise of the node flatten is at has been fulfilled: its
\* record is appended, and flatten runs on to the next await or to the end.
FlattenResume ==
  /\ pc = "flattening"
  /\ LET top == fstack[Len(fstack)]
         p   == nodes[top.node].base64Promise
     IN  /\ p.state = "fulfilled"
         /\ appended' = Append(appended, top.node)
         /\ FlattenFrom(FlattenOrder(fstack), AppendRecord(top, getMenuList(nodes[top.node], p.value)))
  /\ UNCHANGED <<MENU, ICONS_WEIGHT, nodes, input, parameters, stack, passes, visits, imageInfo, xhr, img,
                 exception>>

\* ------------------------------------------------------------- specifications

Actions(Nets) ==
  \/ UpdateMenuItemsCall
  \/ VisitItem(Nets)
  \/ \E n \in DOMAIN nodes : ImgOnload(n)
  \/ \E n \in DOMAIN nodes : ImgOnerror(n)
  \/ FlattenMenuOptionsCall
  \/ FlattenResume

\* Menu trees of up to MaxNodes nodes.
Next ==
  \/ PrepareVariables(0..MaxNodes, NodeImages, Ids, {0})
  \/ Actions(TreeNetOutcomes)

Spec == Init /\ [][Next]_vars

\* One node, with every combination of raw image fields and icon references.
NextNode ==
  \/ PrepareVariables({1}, RichImages, {<<"p">>}, WeightParams)
  \/ Actions(NetOutcomes)

SpecNode == Init /\ [][NextNode]_vars

\* ---------------------------------------------------------------- properties

\* The depth-first pre-order of the trees rooted at items, from the children lists.
RECURSIVE PreOrder(_)
PreOrder(items) ==
  IF items = << >> THEN << >>
  ELSE <<Head(items)>> \o PreOrder(nodes[Head(items)].children) \o PreOrder(Tail(items))

Range(seq) == {seq[i] : i \in 1..Len(seq)}

\* The parent of node n in the tree (0 for a top-level node).
ParentOf(n) ==
  IF \E m \in DOMAIN nodes : n \in Range(nodes[m].children)
    THEN CHOOSE m \in DOMAIN nodes : n \in Range(nodes[m].children)
    ELSE 0

\* The key a node's record belongs under: "#root", or its parent's id.
KeyOf(n) == IF ParentOf(n) = 0 THEN RootKey ELSE nodes[ParentOf(n)].id

\* The node has none of the three image fields.
NoImageFields(n) ==
  input[n].base64 = Undefined /\ input[n].icon = Undefined /\ input[n].imageUrl = Undefined

\* The node was visited by the first call of updateMenuItems, and by no other.
VisitedOnce(n) == visits[n] = 1 /\ passes = 1

\* The first call of updateMenuItems has returned.
Returned == passes = 1 /\ pc \in {"updated", "flattening", "done"}

\* C1 (as claimed): a node with none of the three image fields is classified
\* as absent, its pending value resolves to the empty string, no exception is
\* thrown and no request is sent for it.
AbsentResolvesEmpty ==
  \A n \in DOMAIN nodes :
    VisitedOnce(n) /\ NoImageFields(n) =>
      /\ ~Truthy(imageInfo[n].type)
      /\ exception = "none"
      /\ xhr[n] \in {"none", "opened"}
      /\ nodes[n].base64Promise = Fulfilled(Empty)

\* C2: once updateMenuItems(MENU) has returned, every node of the tree, at
\* any depth, carries a base64Promise and none of icon, base64, imageUrl.
DecoratedAfterReturn ==
  Returned =>
    \A n \in Range(PreOrder(MENU)) :
      /\ nodes[n].base64Promise.state \in {"pending", "fulfilled"}
      /\ nodes[n].icon = Undefined
      /\ nodes[n].base64 = Undefined
      /\ nodes[n].imageUrl = Undefined

\* C2 witness: updateMenuItems has returned for a tree three levels deep
\* whose nodes came with inline data, an icon and a remote link.
DecoratedDeepTree ==
  /\ Returned
  /\ \E a, b, c \in DOMAIN nodes :
       /\ MENU = <<a>> /\ nodes[a].children = <<b>> /\ nodes[b].children = <<c>>
       /\ Truthy(input[a].base64) /\ Truthy(input[b].imageUrl) /\ Truthy(input[c].icon)

\* seq is a prefix of full.
IsPrefix(seq, full) == Len(seq) <= Len(full) /\ seq = SubSeq(full, 1, Len(seq))

\* The nodes whose records a key of result holds, by the titles of the records.
NodesUnder(key) == [i \in 1..Len(result[key]) |-> CHOOSE n \in DOMAIN nodes : Title(n) = result[key][i].N]

\* The nodes of seq that belong under key, in the order of seq.
Under(seq, key) == SelectSeq(seq, LAMBDA n : KeyOf(n) = key)

\* C3: records are appended in depth-first pre-order, each only once its own
\* pending value has settled, whatever the order of the resolutions; within
\* every key the records are in pre-order.
AppendedInPreOrder ==
  pc \in {"flattening", "done"} =>
    /\ IsPrefix(appended, PreOrder(MENU))
    /\ \A i \in 1..Len(appended) : nodes[appended[i]].base64Promise.state = "fulfilled"
    /\ pc = "done" => appended = PreOrder(MENU)
    /\ \A key \in DOMAIN result :
         /\ \A i \in 1..Len(result[key]) : \E n \in DOMAIN nodes : Title(n) = result[key][i].N
         /\ NodesUnder(key) = Under(appended, key)

\* C3 witness: flatten waits for a node whose image is still loading while
\* the image of a node later in pre-order has already loaded, and records
\* have been appended to a key already.
LaterNodeResolvedFirst ==
  /\ pc = "flattening"
  /\ Len(appended) > 0
  /\ \E b \in DOMAIN nodes :
       LET a == fstack[Len(fstack)].node
       IN  /\ img[a] = "loading"
           /\ img[b] = "loaded"
           /\ \E i, j \in 1..Len(PreOrder(MENU)) :
                i < j /\ PreOrder(MENU)[i] = a /\ PreOrder(MENU)[j] = b

FetchFailed(n) == xhr[n] \in {"404", "neterror"}

\* C5 (as claimed): when the request of an icon or remote-link node fails, no
\* exception reaches the caller, the pending value resolves to the empty
\* string and the node's record has no PHOTO line.
FetchFailureResolvesEmpty ==
  /\ \A n \in DOMAIN nodes :
       VisitedOnce(n) /\ imageInfo[n].type \in {<<"svg">>, <<"jpg">>} /\ FetchFailed(n) =>
         /\ exception # "NetworkError"
         /\ nodes[n].base64Promise = Fulfilled(Empty)
  /\ \A key \in DOMAIN result : \A i \in 1..Len(result[key]) :
       \A n \in DOMAIN nodes :
         Title(n) = result[key][i].N /\ FetchFailed(n) => result[key][i].PHOTO = Empty

\* C6: a node with a non-empty base64 field is classified inline whatever
\* its icon and imageUrl hold, and a node with no base64 (absent or empty) but
\* a non-empty icon is classified as a vector reference whatever imageUrl holds.
ClassifierPriority ==
  \A n \in DOMAIN nodes :
    VisitedOnce(n) =>
      /\ Truthy(input[n].base64) => imageInfo[n].type = <<"base64">>
      /\ ~Truthy(input[n].base64) /\ Truthy(input[n].icon) => imageInfo[n].type = <<"svg">>

\* C6 witness: a node that came with all three fields has been classified inline.
ClassifiedWithSeveralFields ==
  \E n \in DOMAIN nodes :
    /\ VisitedOnce(n)
    /\ Truthy(input[n].base64) /\ Truthy(input[n].icon) /\ Truthy(input[n].imageUrl)
    /\ imageInfo[n].type = <<"base64">>

\* What follows the first occurrence of 'base64,' in str (str itself without one).
AfterFirstMarker(str) ==
  IF Includes(str, B64) THEN SubSeq(str, IndexOf(str, B64) + 1, Len(str)) ELSE str

\* Two values are the same payload: equal, or both empty (undefined or '').
SamePayload(a, b) == a = b \/ (~Truthy(a) /\ ~Truthy(b))

\* C7 (as claimed): the pending value of a node classified inline resolves to
\* its inline data with the prefix ending in 'base64,' removed, whatever its
\* icon and imageUrl hold, and no request is made for it.
InlineResolvesToPayload ==
  \A n \in DOMAIN nodes :
    VisitedOnce(n) /\ imageInfo[n].type = <<"base64">> =>
      /\ xhr[n] = "none"
      /\ nodes[n].base64Promise.state = "fulfilled"
      /\ SamePayload(nodes[n].base64Promise.value, AfterFirstMarker(input[n].base64))

\* C8 (as claimed): a second call of updateMenuItems on the decorated tree
\* throws nothing, and when it has returned every node has been visited again
\* and classified absent.
SecondPassClassifiesAbsent ==
  passes = 2 =>
    /\ exception = "none"
    /\ \A n \in DOMAIN nodes : visits[n] = 2 => ~Truthy(imageInfo[n].type)
    /\ pc = "updated" => \A n \in DOMAIN nodes : visits[n] = 2

\* The fields of an icon reference that holds a delimiter.
IconFields(icon) == Split(icon, getIconSeparator(icon)[1])

\* The path segments of a link.
Segments(link) == Split(link, "/")

\* The weight segment the claims expect for weight w.
WeightSegment(w) == IF w = 400 THEN <<"default">> ELSE <<"wght">> \o NumToString(w)

\* The node's icon reference was resolved into the source of its ImageInfo.
IconResolved(n) == VisitedOnce(n) /\ imageInfo[n].type = <<"svg">>

\* C9 (as claimed): when the weight field of the icon reference is the
\* integer w, the link holds the segment "default" for w = 400 and the
\* segment "wght<w>" for any other w, 0 and negative values included.
WeightFieldSegment ==
  \A n \in DOMAIN nodes :
    IconResolved(n) /\ Truthy(getIconSeparator(input[n].icon)) =>
      \A w \in WeightValues :
        At(IconFields(input[n].icon), 4) = NumToString(w) =>
          WeightSegment(w) \in Range(Segments(imageInfo[n].source))

\* C10 (as claimed): for an icon reference without a delimiter, whatever
\* iconsWeight was configured, the link's icon-name segment is the whole
\* string and its weight segment is "default".
NoDelimiterDefaultWeight ==
  \A n \in DOMAIN nodes :
    IconResolved(n) /\ ~Truthy(getIconSeparator(input[n].icon)) =>
      /\ Len(Segments(imageInfo[n].source)) = 4
      /\ Segments(imageInfo[n].source)[2] = input[n].icon
      /\ Segments(imageInfo[n].source)[3] = <<"default">>

\* C10 (amended): for an icon reference without a delimiter, the link's
\* icon-name segment is the whole string, and its weight segment is "default"
\* when iconsWeight is unset (falsy) or 400 and "wght<iconsWeight>" otherwise.
NoDelimiterConfiguredWeight ==
  \A n \in DOMAIN nodes :
    IconResolved(n) /\ ~Truthy(getIconSeparator(input[n].icon)) =>
      /\ Len(Segments(imageInfo[n].source)) = 4
      /\ Segments(imageInfo[n].source)[2] = input[n].icon
      /\ Segments(imageInfo[n].source)[3] =
           IF parameters.iconsWeight \in {0, 400} THEN <<"default">>
           ELSE <<"wght">> \o NumToString(parameters.iconsWeight)

\* C10 witness: an icon reference without a delimiter has been resolved
\* under a configured iconsWeight of 700.
NoDelimiterResolvedUnderWeight ==
  \E n \in DOMAIN nodes :
    /\ IconResolved(n)
    /\ ~Truthy(getIconSeparator(input[n].icon))
    /\ parameters.iconsWeight = 700
    /\ Segments(imageInfo[n].source)[3] = <<"wght", "7", "0", "0">>

\* The node's type asks for a request: an icon or a remote link.
Fetches(n) == imageInfo[n].type \in {<<"svg">>, <<"jpg">>}

\* C11 (as claimed): the promise is attached without waiting for the node's
\* request, so while the decorator is still walking the tree (no event can be
\* delivered before it returns) the request of every node it has decorated
\* is still in flight.
FetchOutstandingWhileDecorating ==
  pc = "updating" /\ passes = 1 =>
    \A n \in DOMAIN nodes : visits[n] = 1 /\ Fetches(n) => xhr[n] = "inflight"

\* C11 (amended): the request of a node is synchronous and has ended before
\* its promise is attached and the next node is visited, so no request is
\* ever in flight between two steps; what the decorator does not wait for is
\* the decode of an icon's image, and a pending promise is always that of an
\* icon whose request succeeded and whose image has not loaded.
OnlyDecodesOutstanding ==
  \A n \in DOMAIN nodes :
    /\ xhr[n] # "inflight"
    /\ VisitedOnce(n) /\ Fetches(n) /\ nodes[n].base64Promise.state # "none" =>
         xhr[n] \in {"200", "200empty", "404"}
    /\ nodes[n].base64Promise.state = "pending" => img[n] \in {"loading", "error"}
    /\ VisitedOnce(n) /\ nodes[n].base64Promise.state = "pending" =>
         imageInfo[n].type = <<"svg">> /\ xhr[n] = "200"

\* C11 witness: the decorator has returned and the images of two icon nodes
\* are loading at the same time, both requests having ended.
SeveralDecodesOutstanding ==
  /\ pc = "updated" /\ passes = 1
  /\ \E a, b \in DOMAIN nodes :
       /\ a # b
       /\ \A n \in {a, b} :
            /\ img[n] = "loading"
            /\ xhr[n] = "200"
            /\ nodes[n].base64Promise.state = "pending"

\* C12 (as claimed): a pending value settles in every outcome of the image
\* decode, a failed decode included, so flatten, awaiting a node, can always
\* go on: its promise is fulfilled or its image is still loading.
SettlesInEveryDecodeOutcome ==
  /\ \A n \in DOMAIN nodes :
       img[n] \in {"loaded", "error"} => nodes[n].base64Promise.state = "fulfilled"
  /\ pc = "flattening" =>
       LET n == fstack[Len(fstack)].node
       IN  nodes[n].base64Promise.state = "fulfilled" \/ img[n] = "loading"

====
